---- MODULE Spec2Model ----
(***************************************************************************)
(* Reverse-tunnel proxy-membership tracker (ConnectedProxies) and agent    *)
(* pool store (agentStore) of package reversetunnel.                       *)
(***************************************************************************)
EXTENDS Integers, Sequences, FiniteSets, TLC

(***************************************************************************)
(* Bounds of the model.                                                    *)
(***************************************************************************)
\* number of updateProxyIDs calls made in one behaviour
MaxUpdates == 3

\* number of updateProxyIDs calls in one behaviour of the fair specification
MaxFairUpdates == 2
\* number of agentStore calls made by the concurrent callers in one behaviour
MaxCalls == 3
\* longest certificate principal
MaxStrLen == 3
\* most principals in one certificate
MaxPrincipals == 2
\* most handles the store holds at once
MaxStore == 3
\* number of add calls made in one behaviour
MaxAdds == 4
\* largest threshold passed to poplen
MaxThreshold == 3

\* goroutines that call updateProxyIDs
Updaters == {"u1", "u2"}
\* agent handles (*Agent pointers), compared by identity
Agents == {"a1", "a2", "a3"}
\* the nil *Agent
NilAgent == "nil"
\* thresholds passed to poplen
Thresholds == (0 - MaxThreshold)..MaxThreshold
\* goroutines that call the methods of one agentStore at the same time
Threads == {"t1", "t2"}
\* goroutines that read ProxyIDs() and receive from WaitForChange()
Watchers == {"w1"}

(***************************************************************************)
(* Values of type []string.  A Go slice is nil or non-nil; a non-nil slice *)
(* may have length zero.                                                   *)
(***************************************************************************)
NilSlice == [isNil |-> TRUE, elems |-> <<>>]

Slice(s) == [isNil |-> FALSE, elems |-> s]

\* arguments of updateProxyIDs: nil, empty, one identifier, and two
\* identifiers in either order
Slices == {NilSlice, Slice(<<>>), Slice(<<"p1">>), Slice(<<"p2">>),
           Slice(<<"p1", "p2">>), Slice(<<"p2", "p1">>)}

\* a comparison that stops at the lengths
\* the elements compared as sets
CmpEqual_anyOrder(a, b) ==
    /\ a.isNil = b.isNil
    /\ Len(a.elems) = Len(b.elems)
    /\ {a.elems[i] : i \in 1..Len(a.elems)} = {b.elems[i] : i \in 1..Len(b.elems)}

CmpEqual_lenOnly(a, b) ==
    /\ a.isNil = b.isNil
    /\ Len(a.elems) = Len(b.elems)

\* cmp.Equal on two []string values: nil-ness, length and every element
\* must agree (no cmpopts.EquateEmpty is passed).
CmpEqual(a, b) ==
    /\ a.isNil = b.isNil
    /\ Len(a.elems) = Len(b.elems)
    /\ \A i \in 1..Len(a.elems) : a.elems[i] = b.elems[i]

\* the new value is never stored
StoredIds_dropped(cur, new) == cur

\* the test of the early return inverted
StoredIds_inverted(cur, new) == IF CmpEqual(cur, new) THEN new ELSE cur

\* the value of p.ids when updateProxyIDs(new) leaves its critical section
StoredIds(cur, new) == IF CmpEqual(cur, new) THEN cur ELSE new

\* the early return left out: a goroutine started for every call
Dispatches_always(cur, new) == 1

\* a second goroutine started for the same change
Dispatches_twice(cur, new) == IF CmpEqual(cur, new) THEN 0 ELSE 2

\* the number of notification goroutines updateProxyIDs(new) starts
Dispatches(cur, new) == IF CmpEqual(cur, new) THEN 0 ELSE 1

\* a select without the default case: the send waits for a receiver
SelectSend_blocking(receiverReady) == IF receiverReady THEN "delivered" ELSE "blocked"

\* the select of the notification goroutine: the send case is taken when a
\* receiver is parked on the unbuffered channel, the default case otherwise
SelectSend(receiverReady) == IF receiverReady THEN "delivered" ELSE "dropped"

(***************************************************************************)
(* State of the tracker.                                                   *)
(***************************************************************************)
VARIABLES
    ids,        \* p.ids
    mu,         \* p.mu: "" when free, else the updater holding the write lock
    ncalls,     \* updateProxyIDs calls started
    lastCall,   \* record of the updateProxyIDs call that returned last
    npub,       \* history: number of calls that found p.ids different
    lastPub,    \* history: argument of the last such call
    notif,      \* the notification goroutines, in the order they were started
    wpc,        \* "run" or "recv" (parked in <-p.change) for each watcher
    wSeen,      \* what each watcher's last ProxyIDs() returned
    wReadPub,   \* npub at that read; -1: no read since the last receive
    wcur,       \* history: the receive in progress
    wlast       \* history: the receive each watcher completed last

tvars == <<ids, mu, ncalls, lastCall, npub, lastPub, notif,
           wpc, wSeen, wReadPub, wcur, wlast>>

(***************************************************************************)
(* State of the agent store.                                               *)
(***************************************************************************)
VARIABLES
    agents,     \* s.agents
    born,       \* history: for each position of s.agents, the number of the
                \* add call that put the handle there
    nadds,      \* history: add calls made
    nremoved,   \* history: remove calls that returned true
    npopped,    \* history: poplen calls that returned a handle
    res         \* the call that returned last: its arguments, its results and
                \* s.agents before it

svars == <<agents, born, nadds, nremoved, npopped, res>>

(***************************************************************************)
(* State of the callers that share an agentStore.                          *)
(***************************************************************************)
VARIABLES
    smu,        \* s.mu: the goroutine holding the write lock ("" for none) and
                \* the goroutines holding the read lock
    th,         \* for each caller: its position, its call, its local
                \* variables and what the call returned
    lin,        \* history: s.agents had each call run alone, in the order
                \* in which the calls took the lock
    scalls,     \* history: calls made
    hand        \* history: for each handle, the add calls that have written
                \* it and the remove and poplen calls that have taken it

cvars == <<smu, th, lin, scalls, hand>>

(***************************************************************************)
(* State of a caller that sheds handles with poplen until the store is     *)
(* down to a target size.                                                  *)
(***************************************************************************)
VARIABLES
    drain       \* the loop's position and target l, with history: s.agents
                \* when the loop started, the handles received so far and
                \* their add numbers, s.agents as the last call left it, and
                \* whether a later call found it changed

dvars == <<drain>>

(***************************************************************************)
(* State of a getIDFromPrincipals call.  A string is a sequence of         *)
(* characters.                                                             *)
(***************************************************************************)
VARIABLES
    principals, \* the argument
    id,         \* the string returned
    found,      \* the bool returned
    ppc         \* "idle": no call; "call": called; "done": returned

pvars == <<principals, id, found, ppc>>

(***************************************************************************)
(* State of a Bot.Assign call.                                             *)
(***************************************************************************)
VARIABLES
    asg         \* the call's position, the base branch, what the helper
                \* calls return, the variables reviewers and err of Assign,
                \* the reviewer lists passed to RequestReviewers, and the
                \* returned error

avars == <<asg>>

(***************************************************************************)
(* State of a request passing through withErrorHandling.                   *)
(***************************************************************************)
VARIABLES
    mw          \* the interceptor's position, what the handler returned,
                \* what was logged and what the client gets

mvars == <<mw>>

vars == <<tvars, svars, cvars, dvars, pvars, avars, mvars>>

NoCall == [before |-> NilSlice, arg |-> NilSlice, after |-> NilSlice, disp |-> -1]

NoRecv == [startPub |-> -1, readPub |-> -1, quiet |-> FALSE]

NoneYet == [n |-> 0, startPub |-> -1, readPub |-> -1, deliverPub |-> -1,
            prevDeliverPub |-> -1, quiet |-> FALSE, dispPub |-> -1]

\* NewConnectedProxies: ids is the zero value (nil), change is unbuffered
NewConnectedProxies ==
    /\ ids = NilSlice
    /\ mu = ""
    /\ ncalls = 0
    /\ lastCall = NoCall
    /\ npub = 0
    /\ lastPub = NilSlice
    /\ notif = <<>>
    /\ wpc = [w \in Watchers |-> "run"]
    /\ wSeen = [w \in Watchers |-> NilSlice]
    /\ wReadPub = [w \in Watchers |-> -1]
    /\ wcur = [w \in Watchers |-> NoRecv]
    /\ wlast = [w \in Watchers |-> NoneYet]

(***************************************************************************)
(* updateProxyIDs.                                                         *)
(***************************************************************************)
\* p.mu.Lock()
Lock(u) ==
    /\ ncalls < MaxUpdates
    /\ mu = ""
    /\ mu' = u
    /\ ncalls' = ncalls + 1
    /\ UNCHANGED <<ids, lastCall, npub, lastPub, notif,
                   wpc, wSeen, wReadPub, wcur, wlast,
                   svars, pvars, cvars, dvars, avars, mvars>>

\* the goroutines after the call that made store number pub started n more
\* of them
Go(n, pub) == notif \o [k \in 1..n |-> [st |-> "pending", ready |-> FALSE, pub |-> pub]]

\* the body under the lock, with the deferred p.mu.Unlock(): compare, store,
\* start the notification goroutine, unlock
updateProxyIDs(u, new) ==
    /\ mu = u
    /\ ids' = StoredIds(ids, new)
    /\ notif' = Go(Dispatches(ids, new), IF ids = new THEN npub ELSE npub + 1)
    /\ mu' = ""
    /\ npub' = IF ids = new THEN npub ELSE npub + 1
    /\ lastPub' = IF ids = new THEN lastPub ELSE new
    /\ lastCall' = [before |-> ids, arg |-> new, after |-> ids',
                    disp |-> Len(notif') - Len(notif)]
    /\ UNCHANGED <<ncalls, wpc, wSeen, wReadPub, wcur, wlast,
                   svars, pvars, cvars, dvars, avars, mvars>>

(***************************************************************************)
(* The notification goroutine: select { case p.change <- struct{}{}:       *)
(* default: }.                                                             *)
(***************************************************************************)
Parked == {w \in Watchers : wpc[w] = "recv"}

\* the started goroutines that have not reached their select
Pending == {i \in 1..Len(notif) : notif[i].st = "pending"}

\* the send case: the value is handed to one parked receiver
NotifySend(i) ==
    /\ i \in 1..Len(notif)
    /\ notif[i].st = "pending"
    /\ SelectSend(Parked # {}) = "delivered"
    /\ \E w \in Parked :
        /\ notif' = [notif EXCEPT ![i].st = "delivered", ![i].ready = TRUE]
        /\ wpc' = [wpc EXCEPT ![w] = "run"]
        /\ wlast' = [wlast EXCEPT ![w] =
                       [n |-> @.n + 1, startPub |-> wcur[w].startPub,
                        readPub |-> wcur[w].readPub, deliverPub |-> npub,
                        prevDeliverPub |-> @.deliverPub,
                        quiet |-> wcur[w].quiet, dispPub |-> notif[i].pub]]
        /\ wcur' = [wcur EXCEPT ![w] = NoRecv]
        /\ wReadPub' = [wReadPub EXCEPT ![w] = -1]
    /\ UNCHANGED <<ids, mu, ncalls, lastCall, npub, lastPub, wSeen,
                   svars, pvars, cvars, dvars, avars, mvars>>

\* the default case: nothing is sent
NotifyDrop(i) ==
    /\ i \in 1..Len(notif)
    /\ notif[i].st = "pending"
    /\ SelectSend(Parked # {}) = "dropped"
    /\ notif' = [notif EXCEPT ![i].st = "dropped", ![i].ready = Parked # {}]
    /\ UNCHANGED <<ids, mu, ncalls, lastCall, npub, lastPub,
                   wpc, wSeen, wReadPub, wcur, wlast,
                   svars, pvars, cvars, dvars, avars, mvars>>

(***************************************************************************)
(* Watchers.                                                               *)
(***************************************************************************)
\* ProxyIDs(): RLock, return p.ids, RUnlock
ProxyIDs(w) ==
    /\ wpc[w] = "run"
    /\ mu = ""
    /\ wSeen' = [wSeen EXCEPT ![w] = ids]
    /\ wReadPub' = [wReadPub EXCEPT ![w] = npub]
    /\ UNCHANGED <<ids, mu, ncalls, lastCall, npub, lastPub, notif,
                   wpc, wcur, wlast,
                   svars, pvars, cvars, dvars, avars, mvars>>

\* <-p.WaitForChange(): the watcher parks on the unbuffered channel
WaitForChange(w) ==
    /\ wpc[w] = "run"
    /\ wpc' = [wpc EXCEPT ![w] = "recv"]
    /\ wcur' = [wcur EXCEPT ![w] = [startPub |-> npub, readPub |-> wReadPub[w],
                                    quiet |-> Pending = {}]]
    /\ UNCHANGED <<ids, mu, ncalls, lastCall, npub, lastPub, notif,
                   wSeen, wReadPub, wlast,
                   svars, pvars, cvars, dvars, avars, mvars>>

(***************************************************************************)
(* agentStore.  Every method holds s.mu from its first statement to its    *)
(* return, so each call is one step.                                       *)
(***************************************************************************)
NoRes == [op |-> "none", agent |-> NilAgent, l |-> 0, ok |-> FALSE, n |-> 0,
          before |-> <<>>, bornBefore |-> <<>>]

\* the handles in s
Held(s) == {s[i] : i \in 1..Len(s)}

\* newAgentStore
newAgentStore ==
    /\ agents = <<>>
    /\ born = <<>>
    /\ nadds = 0
    /\ nremoved = 0
    /\ npopped = 0
    /\ res = NoRes

\* len
len ==
    /\ res' = [op |-> "len", agent |-> NilAgent, l |-> 0, ok |-> TRUE,
               n |-> Len(agents), before |-> agents, bornBefore |-> born]
    /\ UNCHANGED <<agents, born, nadds, nremoved, npopped, tvars, pvars, cvars, dvars, avars, mvars>>

\* a handle the store holds is not appended again
add_unique(agent) ==
    /\ nadds < MaxAdds
    /\ Len(agents) < MaxStore
    /\ agents' = IF agent \in Held(agents) THEN agents ELSE Append(agents, agent)
    /\ born' = IF agent \in Held(agents) THEN born ELSE Append(born, nadds + 1)
    /\ nadds' = nadds + 1
    /\ res' = [op |-> "add", agent |-> agent, l |-> 0, ok |-> TRUE,
               n |-> 0, before |-> agents, bornBefore |-> born]
    /\ UNCHANGED <<nremoved, npopped, tvars, pvars, cvars, dvars, avars, mvars>>

\* add
add(agent) ==
    /\ nadds < MaxAdds
    /\ Len(agents) < MaxStore
    /\ agents' = Append(agents, agent)
    /\ born' = Append(born, nadds + 1)
    /\ nadds' = nadds + 1
    /\ res' = [op |-> "add", agent |-> agent, l |-> 0, ok |-> TRUE,
               n |-> 0, before |-> agents, bornBefore |-> born]
    /\ UNCHANGED <<nremoved, npopped, tvars, pvars, cvars, dvars, avars, mvars>>

\* the loop falls through to the last index instead of reporting no match
FirstMatch_lastOnMiss(s, agent) ==
    IF \E i \in 1..Len(s) : s[i] = agent
    THEN CHOOSE i \in 1..Len(s) : s[i] = agent /\ \A j \in 1..(i - 1) : s[j] # agent
    ELSE Len(s)

\* the loop runs from the newest handle down
FirstMatch_newest(s, agent) ==
    IF \E i \in 1..Len(s) : s[i] = agent
    THEN CHOOSE i \in 1..Len(s) : s[i] = agent /\ \A j \in (i + 1)..Len(s) : s[j] # agent
    ELSE 0

\* the i of unsafeRemove's loop at which s.agents[i] == agent first holds;
\* 0 when the loop ends without a match
FirstMatch(s, agent) ==
    IF \E i \in 1..Len(s) : s[i] = agent
    THEN CHOOSE i \in 1..Len(s) : s[i] = agent /\ \A j \in 1..(i - 1) : s[j] # agent
    ELSE 0

\* the elements shifted down without shortening the slice
Cut_noTruncate(s, i) == SubSeq(s, 1, i - 1) \o SubSeq(s, i + 1, Len(s)) \o <<s[Len(s)]>>

\* append(s[:i], s[i+1:]...)
Cut(s, i) == SubSeq(s, 1, i - 1) \o SubSeq(s, i + 1, Len(s))

\* every match removed: the loop goes on after the first one
unsafeRemove_all(s, agent) == SelectSeq(s, LAMBDA x : x # agent)

\* unsafeRemove: s.agents afterwards
unsafeRemove(s, agent) ==
    IF FirstMatch(s, agent) = 0 THEN s ELSE Cut(s, FirstMatch(s, agent))

\* remove
remove(agent) ==
    /\ agents' = unsafeRemove(agents, agent)
    /\ born' = IF FirstMatch(agents, agent) = 0 THEN born
               ELSE Cut(born, FirstMatch(agents, agent))
    /\ res' = [op |-> "remove", agent |-> agent, l |-> 0,
               ok |-> FirstMatch(agents, agent) # 0, n |-> 0,
               before |-> agents, bornBefore |-> born]
    /\ nremoved' = IF FirstMatch(agents, agent) # 0 THEN nremoved + 1 ELSE nremoved
    /\ UNCHANGED <<nadds, npopped, tvars, pvars, cvars, dvars, avars, mvars>>

\* the count is not compared with l
poplenFound_anyCount(s, l) == ~(l < 0 \/ Len(s) = 0)

\* Len(s) < l in place of Len(s) <= l
poplenFound_offByOne(s, l) ==
    /\ ~(l < 0 \/ Len(s) = 0)
    /\ ~(Len(s) < l)

\* the l < 0 test left out
poplenFound_noNegative(s, l) ==
    /\ ~(Len(s) = 0)
    /\ ~(Len(s) <= l)

\* the two early returns of poplen: TRUE when neither is taken
poplenFound(s, l) ==
    /\ ~(l < 0 \/ Len(s) = 0)
    /\ ~(Len(s) <= l)

\* the newest handle returned in place of the oldest
poplenAgent_newest(s) == s[Len(s)]

\* agent := s.agents[0]
poplenAgent(s) == s[1]

\* s.agents[:len(s.agents)-1] in place of s.agents[1:]
poplenRest_dropLast(s) == SubSeq(s, 1, Len(s) - 1)

\* s.agents = s.agents[1:]
poplenRest(s) == SubSeq(s, 2, Len(s))

\* poplen
poplen(l) ==
    /\ IF poplenFound(agents, l)
       THEN /\ agents' = poplenRest(agents)
            /\ born' = SubSeq(born, 2, Len(born))
            /\ res' = [op |-> "poplen", agent |-> poplenAgent(agents), l |-> l,
                       ok |-> TRUE, n |-> 0, before |-> agents, bornBefore |-> born]
       ELSE /\ UNCHANGED <<agents, born>>
            /\ res' = [op |-> "poplen", agent |-> NilAgent, l |-> l,
                       ok |-> FALSE, n |-> 0, before |-> agents, bornBefore |-> born]
    /\ npopped' = IF poplenFound(agents, l) THEN npopped + 1 ELSE npopped
    /\ UNCHANGED <<nadds, nremoved, tvars, pvars, cvars, dvars, avars, mvars>>

\* s.agents[0] in place of s.agents[len(s.agents)-1]
lastAgent_oldest(s) == s[1]

\* s.agents[len(s.agents)-1]
lastAgent(s) == s[Len(s)]

\* last
last ==
    /\ res' = IF Len(agents) = 0
              THEN [op |-> "last", agent |-> NilAgent, l |-> 0, ok |-> FALSE,
                    n |-> 0, before |-> agents, bornBefore |-> born]
              ELSE [op |-> "last", agent |-> lastAgent(agents), l |-> 0, ok |-> TRUE,
                    n |-> 0, before |-> agents, bornBefore |-> born]
    /\ UNCHANGED <<agents, born, nadds, nremoved, npopped, tvars, pvars, cvars, dvars, avars, mvars>>

(***************************************************************************)
(* The drain loop: for { if _, ok := s.poplen(l); !ok { break } }.         *)
(***************************************************************************)
\* no loop is running
noDrain ==
    drain = [pc |-> "idle", l |-> 0, start |-> <<>>, got |-> <<>>, gotBorn |-> <<>>,
             left |-> <<>>, disturbed |-> FALSE]

\* the caller starts shedding down to l handles
drainStart(l) ==
    /\ drain.pc # "loop"
    /\ drain' = [pc |-> "loop", l |-> l, start |-> agents, got |-> <<>>,
                 gotBorn |-> <<>>, left |-> agents, disturbed |-> FALSE]
    /\ UNCHANGED <<svars, tvars, pvars, cvars, avars, mvars>>

\* one poplen(l) call of the loop, and the break on not-found
drainPoplen ==
    /\ drain.pc = "loop"
    /\ IF poplenFound(agents, drain.l)
       THEN /\ agents' = poplenRest(agents)
            /\ born' = SubSeq(born, 2, Len(born))
            /\ res' = [op |-> "poplen", agent |-> poplenAgent(agents), l |-> drain.l,
                       ok |-> TRUE, n |-> 0, before |-> agents, bornBefore |-> born]
            /\ drain' = [drain EXCEPT !.got = Append(@, poplenAgent(agents)),
                                      !.gotBorn = Append(@, born[1]),
                                      !.left = agents',
                                      !.disturbed = @ \/ agents # drain.left]
       ELSE /\ UNCHANGED <<agents, born>>
            /\ res' = [op |-> "poplen", agent |-> NilAgent, l |-> drain.l,
                       ok |-> FALSE, n |-> 0, before |-> agents, bornBefore |-> born]
            /\ drain' = [drain EXCEPT !.pc = "done",
                                      !.left = agents,
                                      !.disturbed = @ \/ agents # drain.left]
    /\ npopped' = IF poplenFound(agents, drain.l) THEN npopped + 1 ELSE npopped
    /\ UNCHANGED <<nadds, nremoved, tvars, pvars, cvars, avars, mvars>>

(***************************************************************************)
(* agentStore under concurrent callers: one step for the lock, one for     *)
(* each read and each write of s.agents, one for the unlock.               *)
(***************************************************************************)
NoRet == [ok |-> FALSE, agent |-> NilAgent, n |-> 0]

\* the calls a goroutine makes
Calls ==
    {[op |-> "len", agent |-> NilAgent, l |-> 0],
     [op |-> "last", agent |-> NilAgent, l |-> 0]}
    \cup {[op |-> "add", agent |-> a, l |-> 0] : a \in Agents}
    \cup {[op |-> "remove", agent |-> a, l |-> 0] : a \in Agents}
    \cup {[op |-> "poplen", agent |-> NilAgent, l |-> l] : l \in Thresholds}

\* poplen takes the read lock
lockMode_poplenShared(op) == IF op \in {"len", "last", "poplen"} THEN "RLock" ELSE "Lock"

\* add takes the read lock
lockMode_addShared(op) == IF op \in {"len", "last", "add"} THEN "RLock" ELSE "Lock"

\* s.mu.RLock() in len and last, s.mu.Lock() in add, remove and poplen
lockMode(op) == IF op \in {"len", "last"} THEN "RLock" ELSE "Lock"

\* what call c returns on s.agents = s when nothing runs beside it, and
\* s.agents afterwards
Alone(s, c) ==
    CASE c.op = "len" -> [after |-> s, ret |-> [NoRet EXCEPT !.ok = TRUE, !.n = Len(s)]]
      [] c.op = "add" -> [after |-> Append(s, c.agent), ret |-> [NoRet EXCEPT !.ok = TRUE]]
      [] c.op = "remove" ->
            [after |-> unsafeRemove(s, c.agent),
             ret |-> [NoRet EXCEPT !.ok = FirstMatch(s, c.agent) # 0]]
      [] c.op = "poplen" ->
            IF poplenFound(s, c.l)
            THEN [after |-> poplenRest(s),
                  ret |-> [NoRet EXCEPT !.ok = TRUE, !.agent = poplenAgent(s)]]
            ELSE [after |-> s, ret |-> NoRet]
      [] c.op = "last" ->
            IF Len(s) = 0 THEN [after |-> s, ret |-> NoRet]
            ELSE [after |-> s, ret |-> [NoRet EXCEPT !.ok = TRUE, !.agent = lastAgent(s)]]

\* no caller is in a method
noCallers ==
    /\ smu = [w |-> "", r |-> {}]
    /\ th = [t \in Threads |->
               [pc |-> "idle", call |-> [op |-> "len", agent |-> NilAgent, l |-> 0],
                s |-> <<>>, i |-> 0, ret |-> NoRet, alone |-> NoRet]]
    /\ lin = <<>>
    /\ scalls = 0
    /\ hand = [h \in Agents |-> [in |-> 0, out |-> 0]]

\* a goroutine calls a method
invoke(t, c) ==
    /\ th[t].pc = "idle"
    /\ scalls < MaxCalls
    /\ scalls' = scalls + 1
    /\ th' = [th EXCEPT ![t] = [pc |-> "lock", call |-> c, s |-> <<>>, i |-> 0,
                                ret |-> NoRet, alone |-> NoRet]]
    /\ UNCHANGED <<hand, smu, lin, agents, born, nadds, nremoved, npopped, res, tvars, pvars, dvars, avars, mvars>>

\* s.mu.Lock() or s.mu.RLock()
lock(t) ==
    /\ th[t].pc = "lock"
    /\ smu.w = ""
    /\ IF lockMode(th[t].call.op) = "Lock"
       THEN smu.r = {} /\ smu' = [smu EXCEPT !.w = t]
       ELSE smu' = [smu EXCEPT !.r = @ \cup {t}]
    /\ lin' = Alone(lin, th[t].call).after
    /\ th' = [th EXCEPT ![t].pc = th[t].call.op,
                        ![t].alone = Alone(lin, th[t].call).ret]
    /\ UNCHANGED <<hand, scalls, agents, born, nadds, nremoved, npopped, res, tvars, pvars, dvars, avars, mvars>>

\* len: return len(s.agents)
lenRead(t) ==
    /\ th[t].pc = "len"
    /\ th' = [th EXCEPT ![t].pc = "unlock",
                        ![t].ret = [NoRet EXCEPT !.ok = TRUE, !.n = Len(agents)]]
    /\ UNCHANGED <<hand, smu, lin, scalls, agents, born, nadds, nremoved, npopped, res,
                   tvars, pvars, dvars, avars, mvars>>

\* add: append reads s.agents
addRead(t) ==
    /\ th[t].pc = "add"
    /\ th' = [th EXCEPT ![t].pc = "addWrite", ![t].s = agents]
    /\ UNCHANGED <<hand, smu, lin, scalls, agents, born, nadds, nremoved, npopped, res,
                   tvars, pvars, dvars, avars, mvars>>

\* add: the appended slice is assigned to s.agents
addWrite(t) ==
    /\ th[t].pc = "addWrite"
    /\ agents' = Append(th[t].s, th[t].call.agent)
    /\ hand' = [hand EXCEPT ![th[t].call.agent].in = @ + 1]
    /\ th' = [th EXCEPT ![t].pc = "unlock", ![t].ret = [NoRet EXCEPT !.ok = TRUE]]
    /\ UNCHANGED <<smu, lin, scalls, born, nadds, nremoved, npopped, res, tvars, pvars, dvars, avars, mvars>>

\* remove: the loop of unsafeRemove
removeScan(t) ==
    /\ th[t].pc = "remove"
    /\ th' = IF FirstMatch(agents, th[t].call.agent) = 0
             THEN [th EXCEPT ![t].pc = "unlock", ![t].ret = NoRet]
             ELSE [th EXCEPT ![t].pc = "removeCut",
                             ![t].i = FirstMatch(agents, th[t].call.agent)]
    /\ UNCHANGED <<hand, smu, lin, scalls, agents, born, nadds, nremoved, npopped, res,
                   tvars, pvars, dvars, avars, mvars>>

\* remove: s.agents = append(s.agents[:i], s.agents[i+1:]...); return true
removeCut(t) ==
    /\ th[t].pc = "removeCut"
    /\ agents' = Cut(agents, th[t].i)
    /\ hand' = [hand EXCEPT ![th[t].call.agent].out = @ + 1]
    /\ th' = [th EXCEPT ![t].pc = "unlock", ![t].ret = [NoRet EXCEPT !.ok = TRUE]]
    /\ UNCHANGED <<smu, lin, scalls, born, nadds, nremoved, npopped, res, tvars, pvars, dvars, avars, mvars>>

\* poplen: the two early returns, and agent := s.agents[0]
poplenCheck(t) ==
    /\ th[t].pc = "poplen"
    /\ th' = IF poplenFound(agents, th[t].call.l)
             THEN [th EXCEPT ![t].pc = "poplenShift",
                             ![t].ret = [NoRet EXCEPT !.agent = poplenAgent(agents)]]
             ELSE [th EXCEPT ![t].pc = "unlock", ![t].ret = NoRet]
    /\ UNCHANGED <<hand, smu, lin, scalls, agents, born, nadds, nremoved, npopped, res,
                   tvars, pvars, dvars, avars, mvars>>

\* poplen: s.agents = s.agents[1:]; return agent, true
poplenShift(t) ==
    /\ th[t].pc = "poplenShift"
    /\ agents' = poplenRest(agents)
    /\ hand' = [hand EXCEPT ![th[t].ret.agent].out = @ + 1]
    /\ th' = [th EXCEPT ![t].pc = "unlock", ![t].ret.ok = TRUE]
    /\ UNCHANGED <<smu, lin, scalls, born, nadds, nremoved, npopped, res, tvars, pvars, dvars, avars, mvars>>

\* last
lastRead(t) ==
    /\ th[t].pc = "last"
    /\ th' = IF Len(agents) = 0
             THEN [th EXCEPT ![t].pc = "unlock", ![t].ret = NoRet]
             ELSE [th EXCEPT ![t].pc = "unlock",
                             ![t].ret = [NoRet EXCEPT !.ok = TRUE,
                                                      !.agent = lastAgent(agents)]]
    /\ UNCHANGED <<hand, smu, lin, scalls, agents, born, nadds, nremoved, npopped, res,
                   tvars, pvars, dvars, avars, mvars>>

\* the deferred s.mu.Unlock() or s.mu.RUnlock(), and the return
unlock(t) ==
    /\ th[t].pc = "unlock"
    /\ smu' = [w |-> IF smu.w = t THEN "" ELSE smu.w, r |-> smu.r \ {t}]
    /\ th' = [th EXCEPT ![t].pc = "idle"]
    /\ UNCHANGED <<hand, lin, scalls, agents, born, nadds, nremoved, npopped, res,
                   tvars, pvars, dvars, avars, mvars>>

(***************************************************************************)
(* getIDFromPrincipals.                                                    *)
(***************************************************************************)
\* the characters of a principal
Chars == {"a", "."}

\* the strings of up to n characters
Strings(n) == UNION {[1..k -> Chars] : k \in 0..n}

\* the principal lists a certificate presents
PrincipalLists == UNION {[1..k -> Strings(MaxStrLen)] : k \in 0..MaxPrincipals}

\* the positions of "." in str
Dots(str) == {i \in 1..Len(str) : str[i] = "."}

RECURSIVE Split(_)
\* strings.Split(str, "."): the pieces between the separators, one more than
\* there are separators
Split(str) ==
    IF Dots(str) = {} THEN <<str>>
    ELSE LET k == CHOOSE i \in Dots(str) : \A j \in Dots(str) : i <= j
         IN  <<SubSeq(str, 1, k - 1)>> \o Split(SubSeq(str, k + 1, Len(str)))

\* a list whose first principal is empty rejected as well
noPrincipals_orEmptyFirst(p) == Len(p) = 0 \/ Len(p[1]) = 0

\* len(principals) == 0
noPrincipals(p) == Len(p) = 0

\* split[len(split)-1] in place of split[0]
splitID_last(split) == split[Len(split)]

\* id = split[0]
splitID(split) == split[1]

\* the two values getIDFromPrincipals(p) returns
IDFromPrincipals(p) ==
    IF noPrincipals(p) THEN [id |-> <<>>, found |-> FALSE]
    ELSE LET split == Split(p[1])
         IN  [id |-> IF Len(split) > 1 THEN splitID(split) ELSE p[1], found |-> TRUE]

\* no call of getIDFromPrincipals
noCall ==
    /\ principals = <<>>
    /\ id = <<>>
    /\ found = FALSE
    /\ ppc = "idle"

\* a call of getIDFromPrincipals with any principal list
called ==
    /\ principals \in PrincipalLists
    /\ id = <<>>
    /\ found = FALSE
    /\ ppc = "call"

\* getIDFromPrincipals
getIDFromPrincipals ==
    /\ ppc = "call"
    /\ id' = IDFromPrincipals(principals).id
    /\ found' = IDFromPrincipals(principals).found
    /\ ppc' = "done"
    /\ UNCHANGED <<principals, tvars, svars, cvars, dvars, avars, mvars>>

(***************************************************************************)
(* Bot.Assign.                                                             *)
(***************************************************************************)
\* a nil error
NoErr == [orig |-> "", wrapped |-> FALSE]

\* trace.Wrap: nil stays nil, an error gets a stack and keeps its cause
Wrap(e) == IF e = NoErr THEN NoErr ELSE [e EXCEPT !.wrapped = TRUE]

\* base branch names, one character per element
Bases ==
    {<<"m", "a", "s", "t", "e", "r">>,
     <<"b", "r", "a", "n", "c", "h", "/", "v", "9">>,
     <<"b", "r", "a", "n", "c", "h", "/">>,
     <<"v", "9", "/", "b", "r", "a", "n", "c", "h", "/", "v">>}

\* strings.HasPrefix
HasPrefix(str, prefix) ==
    /\ Len(str) >= Len(prefix)
    /\ SubSeq(str, 1, Len(prefix)) = prefix

\* isBackport
isBackport(unsafeBase) == HasPrefix(unsafeBase, <<"b", "r", "a", "n", "c", "h", "/", "v">>)

\* what getReviewers, getBackportReviewers may return: a reviewer list and
\* no error, or nil and a wrapped error
ReviewerLists == {NilSlice, Slice(<<"r1">>), Slice(<<"r1", "r2">>)}

Outcomes(cause) ==
    {[reviewers |-> r, err |-> NoErr] : r \in ReviewerLists}
    \cup {[reviewers |-> NilSlice, err |-> Wrap([orig |-> cause, wrapped |-> FALSE])]}

\* what RequestReviewers may return
RequestErrors == {NoErr, [orig |-> "github", wrapped |-> FALSE]}

\* no call is under way
noAssign ==
    asg = [pc |-> "idle", base |-> <<>>,
           gb |-> [reviewers |-> NilSlice, err |-> NoErr],
           gr |-> [reviewers |-> NilSlice, err |-> NoErr],
           rr |-> NoErr,
           reviewers |-> NilSlice, err |-> NoErr,
           requested |-> <<>>, ret |-> NoErr]

\* Assign is called: var err error; var reviewers []string
Assign(base, gb, gr, rr) ==
    /\ asg.pc \in {"idle", "done"}
    /\ asg' = [pc |-> "switch", base |-> base, gb |-> gb, gr |-> gr, rr |-> rr,
               reviewers |-> NilSlice, err |-> NoErr,
               requested |-> <<>>, ret |-> NoErr]
    /\ UNCHANGED <<tvars, svars, cvars, dvars, pvars, mvars>>

\* case isBackport(...): reviewers, err = b.getBackportReviewers(ctx), and on
\* an error reviewers, err = b.getReviewers(ctx)
assignBackport ==
    /\ asg.pc = "switch"
    /\ isBackport(asg.base)
    /\ asg' = IF asg.gb.err # NoErr
              THEN [asg EXCEPT !.pc = "check", !.reviewers = asg.gr.reviewers,
                               !.err = asg.gr.err]
              ELSE [asg EXCEPT !.pc = "check", !.reviewers = asg.gb.reviewers,
                               !.err = asg.gb.err]
    /\ UNCHANGED <<tvars, svars, cvars, dvars, pvars, mvars>>

\* default: reviewers, err := b.getReviewers(ctx).  The := declares new
\* variables in the scope of the case; those of the function keep their
\* values
assignDefault ==
    /\ asg.pc = "switch"
    /\ ~isBackport(asg.base)
    /\ asg' = [asg EXCEPT !.pc = "check"]
    /\ UNCHANGED <<tvars, svars, cvars, dvars, pvars, mvars>>

\* if err != nil { return trace.Wrap(err) }
assignCheck ==
    /\ asg.pc = "check"
    /\ asg' = IF asg.err # NoErr
              THEN [asg EXCEPT !.pc = "done", !.ret = Wrap(asg.err)]
              ELSE [asg EXCEPT !.pc = "request"]
    /\ UNCHANGED <<tvars, svars, cvars, dvars, pvars, mvars>>

\* err = b.c.GitHub.RequestReviewers(..., reviewers), and the return
assignRequest ==
    /\ asg.pc = "request"
    /\ asg' = [asg EXCEPT !.pc = "done",
                          !.requested = Append(@, asg.reviewers),
                          !.err = asg.rr,
                          !.ret = Wrap(asg.rr)]
    /\ UNCHANGED <<tvars, svars, cvars, dvars, pvars, mvars>>

(***************************************************************************)
(* withErrorHandling.  A string is a sequence of pieces: literal text or   *)
(* the formatting verb "%v".                                               *)
(***************************************************************************)
\* the classes of error that the trace.Is... tests of toGRPC tell apart
Kinds ==
    {"NotFound", "AlreadyExists", "AccessDenied", "CompareFailed", "BadParameter",
     "OAuth2", "LimitExceeded", "ConnectionProblem", "NotImplemented", "Other"}

Texts == {<<>>, <<"secret">>, <<"secret", "%v">>, <<"access denied">>}

\* a nil error
NilError == [kind |-> "nil", traced |-> FALSE, messages |-> <<>>, message |-> <<>>,
             text |-> <<>>]

\* no status error
NilStatus == [code |-> "nil", msg |-> <<>>]

\* the errors a handler may return: a *trace.TraceErr with its Messages
\* and Message fields around an error of some class, or that error bare
HandlerErrors ==
    {[kind |-> k, traced |-> TRUE, messages |-> ms, message |-> m, text |-> x] :
        k \in Kinds,
        ms \in {<<>>, <<<<"secret">>>>, <<<<"secret", "%v">>, <<"stack">>>>},
        m \in {<<>>, <<"old">>},
        x \in Texts}
    \cup {[kind |-> k, traced |-> FALSE, messages |-> <<>>, message |-> <<>>, text |-> x] :
        k \in Kinds, x \in Texts}

\* trace.AccessDenied(message)
AccessDenied(message) ==
    [kind |-> "AccessDenied", traced |-> TRUE, messages |-> <<>>, message |-> <<>>,
     text |-> message]

\* trace.IsAccessDenied
IsAccessDenied(err) == err.kind = "AccessDenied"

\* getUserMessage
getUserMessage(err) ==
    IF err = NilError THEN <<>>
    ELSE IF ~err.traced THEN err.text
    ELSE IF Len(err.messages) > 0 THEN err.messages[1]
    ELSE IF err.message # <<>> THEN err.message
    ELSE err.text

\* status.Errorf(code, format) with no operand: every verb of the format
\* is printed as missing
Errorf(code, format) ==
    [code |-> code,
     msg |-> [i \in 1..Len(format) |->
                IF format[i] = "%v" THEN "%!v(MISSING)" ELSE format[i]]]

\* toGRPC
toGRPC(err) ==
    IF err = NilError THEN NilStatus
    ELSE IF err.kind = "NotFound" THEN Errorf("NotFound", getUserMessage(err))
    ELSE IF err.kind = "AlreadyExists" THEN Errorf("AlreadyExists", getUserMessage(err))
    ELSE IF IsAccessDenied(err) THEN Errorf("PermissionDenied", getUserMessage(err))
    ELSE IF err.kind = "CompareFailed" THEN Errorf("FailedPrecondition", getUserMessage(err))
    ELSE IF err.kind \in {"BadParameter", "OAuth2"}
         THEN Errorf("InvalidArgument", getUserMessage(err))
    ELSE IF err.kind = "LimitExceeded" THEN Errorf("ResourceExhausted", getUserMessage(err))
    ELSE IF err.kind = "ConnectionProblem" THEN Errorf("Unavailable", getUserMessage(err))
    ELSE IF err.kind = "NotImplemented" THEN Errorf("Unimplemented", getUserMessage(err))
    ELSE Errorf("Unknown", getUserMessage(err))

\* every error is converted as it came from the handler
withErrorHandling_passThrough(err) == toGRPC(err)

\* the error that the interceptor of withErrorHandling returns
withErrorHandling(err) ==
    IF err # NilError
    THEN IF IsAccessDenied(err)
         THEN toGRPC(AccessDenied(<<"access denied">>))
         ELSE toGRPC(err)
    ELSE NilStatus

\* no request is under way
noRequest ==
    mw = [pc |-> "idle", resp |-> "nil", err |-> NilError, logged |-> NilError,
          outResp |-> "nil", out |-> NilStatus]

\* resp, err := handler(ctx, req)
handler(resp, err) ==
    /\ mw.pc \in {"idle", "done"}
    /\ mw' = [pc |-> "handled", resp |-> resp, err |-> err, logged |-> NilError,
              outResp |-> "nil", out |-> NilStatus]
    /\ UNCHANGED <<tvars, svars, cvars, dvars, pvars, avars>>

\* the rest of the interceptor: log the error, return resp and the
\* converted error
intercept ==
    /\ mw.pc = "handled"
    /\ mw' = [mw EXCEPT !.pc = "done",
                        !.logged = mw.err,
                        !.outResp = mw.resp,
                        !.out = withErrorHandling(mw.err)]
    /\ UNCHANGED <<tvars, svars, cvars, dvars, pvars, avars>>

(***************************************************************************)
(* Specifications.                                                         *)
(***************************************************************************)
Init ==
    /\ NewConnectedProxies /\ newAgentStore /\ noCallers /\ noDrain /\ noCall
    /\ noAssign /\ noRequest

PrincipalsInit ==
    /\ NewConnectedProxies /\ newAgentStore /\ noCallers /\ noDrain /\ called
    /\ noAssign /\ noRequest

AssignNext ==
    \/ \E base \in Bases, gb \in Outcomes("original"), gr \in Outcomes("changes"),
          rr \in RequestErrors : Assign(base, gb, gr, rr)
    \/ assignBackport
    \/ assignDefault
    \/ assignCheck
    \/ assignRequest

AssignSpec == Init /\ [][AssignNext]_vars

MiddlewareNext ==
    \/ \E resp \in {"nil", "resp"}, err \in HandlerErrors \cup {NilError} : handler(resp, err)
    \/ intercept

MiddlewareSpec == Init /\ [][MiddlewareNext]_vars

PrincipalsNext == getIDFromPrincipals

PrincipalsSpec == PrincipalsInit /\ [][PrincipalsNext]_vars

TrackerNext ==
    \/ \E u \in Updaters : Lock(u)
    \/ \E u \in Updaters, new \in Slices : updateProxyIDs(u, new)
    \/ \E i \in 1..MaxUpdates : NotifySend(i)
    \/ \E i \in 1..MaxUpdates : NotifyDrop(i)
    \/ \E w \in Watchers : ProxyIDs(w)
    \/ \E w \in Watchers : WaitForChange(w)

TrackerSpec == Init /\ [][TrackerNext]_vars

\* A goroutine that holds p.mu goes on to return, and a started notification
\* goroutine is scheduled; nothing obliges a watcher to read or to receive.
TrackerFairNext ==
    \/ \E u \in Updaters : ncalls < MaxFairUpdates /\ Lock(u)
    \/ \E u \in Updaters, new \in Slices : updateProxyIDs(u, new)
    \/ \E i \in 1..MaxUpdates : NotifySend(i)
    \/ \E i \in 1..MaxUpdates : NotifyDrop(i)
    \/ \E w \in Watchers : ProxyIDs(w)
    \/ \E w \in Watchers : WaitForChange(w)

TrackerFairSpec ==
    /\ Init /\ [][TrackerFairNext]_vars
    /\ \A u \in Updaters : WF_vars(\E new \in Slices : updateProxyIDs(u, new))
    /\ \A i \in 1..MaxUpdates : WF_vars(NotifySend(i) \/ NotifyDrop(i))

StoreNext ==
    \/ len
    \/ \E agent \in Agents : add(agent)
    \/ \E agent \in Agents : remove(agent)
    \/ \E l \in Thresholds : poplen(l)
    \/ last

StoreSpec == Init /\ [][StoreNext]_vars

StoreConcNext ==
    \/ \E t \in Threads, c \in Calls : invoke(t, c)
    \/ \E t \in Threads : lock(t)
    \/ \E t \in Threads : lenRead(t)
    \/ \E t \in Threads : addRead(t)
    \/ \E t \in Threads : addWrite(t)
    \/ \E t \in Threads : removeScan(t)
    \/ \E t \in Threads : removeCut(t)
    \/ \E t \in Threads : poplenCheck(t)
    \/ \E t \in Threads : poplenShift(t)
    \/ \E t \in Threads : lastRead(t)
    \/ \E t \in Threads : unlock(t)

StoreConcSpec == Init /\ [][StoreConcNext]_vars

\* a drain loop beside callers that add only while no loop runs
StoreDrainNext ==
    \/ \E agent \in Agents : drain.pc # "loop" /\ add(agent)
    \/ \E agent \in Agents : remove(agent)
    \/ \E l \in 0..MaxThreshold : drainStart(l)
    \/ drainPoplen

StoreDrainSpec == Init /\ [][StoreDrainNext]_vars

\* callers that never add a handle the store holds
StoreDistinctNext ==
    \/ len
    \/ \E agent \in Agents : agent \notin Held(agents) /\ add(agent)
    \/ \E agent \in Agents : remove(agent)
    \/ \E l \in Thresholds : poplen(l)
    \/ last

StoreDistinctSpec == Init /\ [][StoreDistinctNext]_vars

(***************************************************************************)
(* Properties of the tracker.                                              *)
(***************************************************************************)
\* element-by-element, order-sensitive equality of two sequences of strings
ElemEqual(a, b) ==
    /\ Len(a.elems) = Len(b.elems)
    /\ \A i \in 1..Len(a.elems) : a.elems[i] = b.elems[i]

Delivered == {i \in 1..Len(notif) : notif[i].st = "delivered"}

RECURSIVE Received(_)
\* the receives completed by the watchers of W, all together
Received(W) ==
    IF W = {} THEN 0
    ELSE LET w == CHOOSE x \in W : TRUE IN wlast[w].n + Received(W \ {w})

\* C1: when three changing updateProxyIDs calls returned before a watcher
\* started its first receive, and that receive succeeded, the ProxyIDs() the
\* watcher calls next (no fourth change having been stored) returns the
\* argument of the third call.
C1_Coalescing ==
    \A w \in Watchers :
        (/\ wlast[w].n = 1
         /\ wlast[w].startPub = 3
         /\ wReadPub[w] = 3
         /\ npub = 3) => wSeen[w] = lastPub

C1_Witness ==
    \E w \in Watchers :
        /\ wlast[w].n = 1
        /\ wlast[w].startPub = 3
        /\ wReadPub[w] = 3
        /\ npub = 3
        /\ wSeen[w] = lastPub
        /\ lastPub # NilSlice

\* C2: when two changing updateProxyIDs calls returned before a watcher's
\* first successful receive, its second receive succeeds only after a further
\* changing call.
C2_OneWakeup ==
    \A w \in Watchers :
        (wlast[w].n = 2 /\ wlast[w].prevDeliverPub >= 2)
            => wlast[w].deliverPub > wlast[w].prevDeliverPub

\* C3: a successful receive that a watcher started after a ProxyIDs() read
\* is preceded by a changing updateProxyIDs call made after that read.
C3_ChangedSinceRead ==
    \A w \in Watchers :
        (wlast[w].n >= 1 /\ wlast[w].readPub >= 0)
            => wlast[w].deliverPub > wlast[w].readPub

\* C4: p.ids is the argument of the most recent updateProxyIDs call that
\* found a different sequence stored (nil before any), also while another
\* caller holds or waits for the lock, and a ProxyIDs() made since that call
\* returned it.
C4_LatestSnapshot ==
    /\ ids = lastPub
    /\ npub = 0 => ids = NilSlice
    /\ \A w \in Watchers : wReadPub[w] = npub => wSeen[w] = lastPub

C4_Witness ==
    \E w \in Watchers :
        /\ npub >= 2
        /\ wReadPub[w] = npub
        /\ wSeen[w] = lastPub
        /\ mu # ""

\* C5: an updateProxyIDs call whose argument is element-by-element equal to
\* the stored sequence leaves p.ids as it was and starts no goroutine.
C5_Idempotent ==
    (lastCall.disp >= 0 /\ ElemEqual(lastCall.before, lastCall.arg))
        => (lastCall.after = lastCall.before /\ lastCall.disp = 0)

\* C6: an updateProxyIDs call whose argument differs from the stored
\* sequence stores the argument and starts exactly one goroutine; a goroutine
\* that runs while a watcher is parked in the receive delivers, and the
\* watchers received one value for each delivery.
C6_ExactlyOneAttempt ==
    /\ (lastCall.disp >= 0 /\ ~ElemEqual(lastCall.before, lastCall.arg))
        => (lastCall.after = lastCall.arg /\ lastCall.disp = 1)
    /\ Len(notif) = npub
    /\ \A i \in 1..Len(notif) :
        /\ notif[i].st = "dropped" => ~notif[i].ready
        /\ notif[i].st = "delivered" => notif[i].ready
    /\ Cardinality(Delivered) = Received(Watchers)

C6_Witness ==
    /\ lastCall.disp = 1
    /\ ~ElemEqual(lastCall.before, lastCall.arg)
    /\ lastCall.after = lastCall.arg
    /\ \E i \in 1..Len(notif) : notif[i].st = "delivered"
    /\ \E w \in Watchers : wlast[w].n = 1

\* C7: whatever the watchers do, a caller that took the lock returns, and
\* every started notification goroutine ends, delivered or dropped.
C7_NeverBlocks ==
    /\ \A u \in Updaters : (mu = u) ~> (mu # u)
    /\ \A i \in 1..MaxUpdates :
        (i <= Len(notif) /\ notif[i].st = "pending")
            ~> (i <= Len(notif) /\ notif[i].st # "pending")

C7_Witness ==
    /\ ncalls = MaxFairUpdates
    /\ mu = ""
    /\ Len(notif) >= 2
    /\ \A i \in 1..Len(notif) : notif[i].st = "dropped"
    /\ \A w \in Watchers : wlast[w].n = 0 /\ wpc[w] = "run"

\* C19: a watcher that read ProxyIDs() and then parked in the receive is
\* never left with a sequence other than the stored one while no
\* notification goroutine is still to run and no call is under way: from
\* such a state, once the calls stop, it stays parked with the old sequence.
C19_NoLostWakeup ==
    \A w \in Watchers :
        (/\ wpc[w] = "recv"
         /\ wcur[w].readPub >= 0
         /\ ~ElemEqual(wSeen[w], ids)) => (Pending # {} \/ mu # "")

\* C20: a goroutine that ran while no watcher was parked delivered
\* nothing, and a receive started when every started goroutine had run
\* stays parked until a later call stores a different sequence.
C20_DroppedNotQueued ==
    /\ \A i \in 1..Len(notif) : ~notif[i].ready => notif[i].st # "delivered"
    /\ \A w \in Watchers :
        /\ (wlast[w].n >= 1 /\ wlast[w].quiet)
              => wlast[w].deliverPub > wlast[w].startPub
        /\ (wpc[w] = "recv" /\ wcur[w].quiet /\ npub = wcur[w].startPub)
              => Pending = {}

C20_Witness ==
    \E w \in Watchers :
        /\ wlast[w].n = 1
        /\ wlast[w].quiet
        /\ wlast[w].startPub = 2
        /\ wlast[w].deliverPub = 3
        /\ notif[1].st = "dropped"
        /\ notif[2].st = "dropped"
        /\ notif[3].st = "delivered"

\* C21: a ProxyIDs() call made after a receive is not behind the signal: it
\* returns the value of a store that is the one of the call that started
\* the delivering goroutine or a later one, and the value it returns is the
\* argument of that store.
C21_SignalNotAhead ==
    \A w \in Watchers :
        (wlast[w].n >= 1 /\ wReadPub[w] >= 0) =>
            /\ wReadPub[w] >= wlast[w].dispPub
            /\ wReadPub[w] = npub => wSeen[w] = lastPub

C21_Witness ==
    \E w \in Watchers :
        /\ wlast[w].n >= 1
        /\ wReadPub[w] = wlast[w].dispPub
        /\ npub > wReadPub[w]
        /\ wSeen[w] # lastPub

\* C22: the first updateProxyIDs call on a new tracker, when its argument
\* has no element (nil or empty), leaves p.ids as it was and starts no
\* goroutine.
C22_EmptyOnFreshNoop ==
    (/\ ncalls = 1
     /\ lastCall.disp >= 0
     /\ Len(lastCall.arg.elems) = 0)
        => (lastCall.after = lastCall.before /\ lastCall.disp = 0)

\* C23: an updateProxyIDs call whose argument holds the elements of the
\* stored sequence in another order stores the argument and starts one
\* goroutine.
C23_OrderSensitive ==
    (/\ lastCall.disp >= 0
     /\ lastCall.before.isNil = lastCall.arg.isNil
     /\ Len(lastCall.before.elems) = Len(lastCall.arg.elems)
     /\ {lastCall.before.elems[i] : i \in 1..Len(lastCall.before.elems)}
           = {lastCall.arg.elems[i] : i \in 1..Len(lastCall.arg.elems)}
     /\ ~ElemEqual(lastCall.before, lastCall.arg))
        => (lastCall.after = lastCall.arg /\ lastCall.disp = 1)

C23_Witness ==
    /\ lastCall.before = Slice(<<"p1", "p2">>)
    /\ lastCall.arg = Slice(<<"p2", "p1">>)
    /\ lastCall.after = Slice(<<"p2", "p1">>)
    /\ lastCall.disp = 1
    /\ ids = Slice(<<"p2", "p1">>)

(***************************************************************************)
(* Properties of the agent store.                                          *)
(***************************************************************************)
\* C8: for l >= 0 and a store of n handles, poplen(l) returns (handle, true)
\* exactly when n > l, and (nil, false) otherwise.
C8_PoplenIffOver ==
    (res.op = "poplen" /\ res.l >= 0) =>
        /\ res.ok <=> Len(res.before) > res.l
        /\ res.ok => res.agent \in Agents
        /\ ~res.ok => res.agent = NilAgent

C8_Witness ==
    /\ res.op = "poplen"
    /\ res.l = 1
    /\ Len(res.before) = 2
    /\ res.ok
    /\ Len(agents) = 1

C10_PopsOldest ==
    (res.op = "poplen" /\ res.ok) =>
        /\ Len(agents) = Len(res.before) - 1
        /\ res.agent = res.before[1]
        /\ \A i \in 1..Len(res.bornBefore) : res.bornBefore[1] <= res.bornBefore[i]
        /\ \A i \in 1..Len(agents) : agents[i] = res.before[i + 1]
        /\ \A i \in 1..Len(born) : born[i] = res.bornBefore[i + 1]

C10_Witness ==
    /\ res.op = "poplen"
    /\ res.ok
    /\ Len(res.before) = 3
    /\ res.before[1] # res.before[2]
    /\ res.before[2] # res.before[3]
    /\ res.bornBefore[1] > 1
    /\ agents = <<res.before[2], res.before[3]>>

\* C24: a poplen call that returns not-found leaves s.agents as it was, and
\* for l >= 0 a poplen(l) call leaves at least min(size before, l) handles.
C24_NeverBelowTarget ==
    (res.op = "poplen") =>
        /\ ~res.ok => agents = res.before
        /\ res.l >= 0 =>
              Len(agents) >= (IF Len(res.before) < res.l THEN Len(res.before) ELSE res.l)

C24_Witness ==
    /\ res.op = "poplen"
    /\ res.l = 2
    /\ Len(res.before) = 2
    /\ ~res.ok
    /\ agents = res.before

C26_AddAppends ==
    /\ (res.op = "add") =>
        /\ Len(agents) = Len(res.before) + 1
        /\ agents[Len(agents)] = res.agent
        /\ \A i \in 1..Len(res.before) : agents[i] = res.before[i]
    /\ \A i, j \in 1..Len(res.before) :
        (/\ res.op = "remove"
         /\ i < j
         /\ res.before[i] = res.agent
         /\ res.before[j] = res.agent
         /\ \A k \in 1..(i - 1) : res.before[k] # res.agent) =>
            /\ res.ok
            /\ Len(agents) = Len(res.before) - 1
            /\ \A k \in 1..(i - 1) : agents[k] = res.before[k]
            /\ \A k \in i..Len(agents) : agents[k] = res.before[k + 1]

C26_Witness ==
    /\ res.op = "remove"
    /\ res.agent = "a1"
    /\ res.before = <<"a1", "a2", "a1">>
    /\ res.bornBefore[3] = nadds
    /\ agents = <<"a2", "a1">>

\* C11: the store holds as many handles as there were add calls, less the
\* remove calls that returned true and the poplen calls that returned a
\* handle, and len() returns that number.
C11_LenCountsCalls ==
    /\ Len(agents) = nadds - nremoved - npopped
    /\ res.op = "len" => res.n = nadds - nremoved - npopped

C11_Witness ==
    /\ res.op = "len"
    /\ nadds = 3
    /\ nremoved = 1
    /\ npopped = 1
    /\ res.n = 1

\* C12: remove(h) of a handle the store does not hold (never added, or taken
\* out since) returns false and leaves s.agents as it was.
C12_RemoveAbsent ==
    (res.op = "remove" /\ res.agent \notin Held(res.before)) =>
        /\ ~res.ok
        /\ agents = res.before

C12_Witness ==
    /\ res.op = "remove"
    /\ res.agent \notin Held(res.before)
    /\ Len(res.before) = 2
    /\ nremoved >= 1
    /\ ~res.ok
    /\ agents = res.before

\* C13: remove(h) returns true exactly when the store holds h; it then takes
\* out the oldest occurrence of h and nothing else, the rest keeping their
\* order.
C13_RemoveFirstMatch ==
    res.op = "remove" =>
        /\ res.ok <=> res.agent \in Held(res.before)
        /\ res.ok =>
            LET k == CHOOSE i \in 1..Len(res.before) :
                        /\ res.before[i] = res.agent
                        /\ \A j \in 1..(i - 1) : res.before[j] # res.agent
            IN  /\ Len(agents) = Len(res.before) - 1
                /\ \A i \in 1..(k - 1) : agents[i] = res.before[i]
                /\ \A i \in k..Len(agents) : agents[i] = res.before[i + 1]

C13_Witness ==
    /\ res.op = "remove"
    /\ res.ok
    /\ Len(res.before) = 3
    /\ res.before[1] = res.agent
    /\ res.before[3] = res.agent
    /\ res.before[2] # res.agent
    /\ agents = <<res.before[2], res.agent>>

\* C14: last() returns (nil, false) exactly when the store is empty, and
\* otherwise the handle of the latest add call whose handle is still held;
\* it leaves the store as it was.
C14_LastIsNewest ==
    res.op = "last" =>
        /\ agents = res.before
        /\ res.ok <=> Len(res.before) > 0
        /\ ~res.ok => res.agent = NilAgent
        /\ res.ok => \E i \in 1..Len(res.before) :
                        /\ res.before[i] = res.agent
                        /\ \A j \in 1..Len(res.bornBefore) :
                              res.bornBefore[j] <= res.bornBefore[i]

C14_Witness ==
    /\ res.op = "last"
    /\ res.ok
    /\ npopped = 0
    /\ nremoved >= 1
    /\ Len(res.before) = 2
    /\ res.before[1] # res.before[2]
    /\ res.agent = res.before[2]
    /\ res.bornBefore[2] = nadds

\* C16: when no add call passes a handle the store holds, no handle is in
\* the store twice, whatever add, remove and poplen calls were made.
C16_NoDuplicates ==
    \A i, j \in 1..Len(agents) : i # j => agents[i] # agents[j]

C16_Witness ==
    /\ Len(agents) = 2
    /\ agents[1] # agents[2]
    /\ nadds = 4
    /\ nremoved = 1
    /\ npopped = 1

(***************************************************************************)
(* Properties of getIDFromPrincipals.                                      *)
(***************************************************************************)
\* C17: getIDFromPrincipals returns ("", false) exactly when the principal
\* list is empty, and true for every other list.
C17_FailsIffEmpty ==
    ppc = "done" =>
        /\ ~found <=> Len(principals) = 0
        /\ ~found => id = <<>>

C17_Witness ==
    /\ ppc = "done"
    /\ found
    /\ Len(principals) = 2
    /\ principals[1] = <<>>
    /\ id = <<>>

\* C18: for a non-empty list the identifier is the first principal when it
\* has no ".", else the first principal up to its first "."; it holds no
\* "." and is what the first principal alone gives.
C18_PrefixOfFirst ==
    (ppc = "done" /\ Len(principals) > 0) =>
        LET first == principals[1] IN
        /\ Dots(first) = {} => id = first
        /\ Dots(first) # {} =>
            /\ Len(id) < Len(first)
            /\ first[Len(id) + 1] = "."
            /\ \A i \in 1..Len(id) : id[i] = first[i] /\ id[i] # "."
        /\ Dots(id) = {}
        /\ id = IDFromPrincipals(<<first>>).id

C18_Witness ==
    /\ ppc = "done"
    /\ principals = << <<"a", ".", "a">>, <<".">> >>
    /\ id = <<"a">>
    /\ found

(***************************************************************************)
(* Properties of the agent store under concurrent callers.                 *)
(***************************************************************************)
\* C15: with the calls ordered as they took the lock, every call returns
\* what it returns when run alone in that order, and whenever no writer
\* is inside a method s.agents is what those calls leave: no add is lost
\* and no reader sees a sequence in the middle of a write.
C15_Linearizable ==
    /\ \A t \in Threads : th[t].pc \in {"idle", "unlock"} => th[t].ret = th[t].alone
    /\ smu.w = "" => agents = lin
    /\ smu.w # "" => smu.r = {}

C15_Witness ==
    \E t, u \in Threads :
        /\ t # u
        /\ th[t].pc = "unlock"
        /\ th[t].call.op = "remove"
        /\ th[t].ret.ok
        /\ th[u].pc = "lock"
        /\ th[u].call.op = "last"
        /\ agents = <<>>
        /\ scalls = MaxCalls

\* C27: no handle is taken by more remove and poplen calls than add calls
\* have stored it, so a handle added once is taken at most once, and a
\* handle that has been taken as often as it was added is not in the store.
C27_HandedOutOnce ==
    \A h \in Agents :
        /\ hand[h].out <= hand[h].in
        /\ hand[h].out = hand[h].in => h \notin Held(agents)

C27_Witness ==
    \E t, u \in Threads, h \in Agents :
        /\ t # u
        /\ hand[h] = [in |-> 1, out |-> 1]
        /\ th[t].pc = "idle"
        /\ th[t].call = [op |-> "remove", agent |-> h, l |-> 0]
        /\ th[t].ret.ok
        /\ th[u].pc = "unlock"
        /\ th[u].call = [op |-> "poplen", agent |-> NilAgent, l |-> 0]
        /\ ~th[u].ret.ok
        /\ h \notin Held(agents)

(***************************************************************************)
(* Properties of Bot.Assign.                                               *)
(***************************************************************************)
\* C28: an Assign call on a base branch that is not a backport either
\* returns the error of getReviewers without a RequestReviewers call, or
\* makes one RequestReviewers call with the list getReviewers returned.
C28_AssignsFromGetReviewers ==
    (asg.pc = "done" /\ ~isBackport(asg.base)) =>
        IF asg.gr.err # NoErr
        THEN asg.ret = Wrap(asg.gr.err) /\ asg.requested = <<>>
        ELSE asg.requested = <<asg.gr.reviewers>>

(***************************************************************************)
(* Properties of withErrorHandling.                                        *)
(***************************************************************************)
\* C29: for every handler error of the access-denied class the client gets
\* PermissionDenied with the message "access denied", whatever the error
\* carries, and for a nil handler error the client gets nil.
C29_AccessDeniedHidden ==
    (mw.pc = "done") =>
        /\ IsAccessDenied(mw.err) =>
              mw.out = [code |-> "PermissionDenied", msg |-> <<"access denied">>]
        /\ mw.err = NilError => mw.out = NilStatus

C29_Witness ==
    /\ mw.pc = "done"
    /\ mw.err.kind = "AccessDenied"
    /\ mw.err.traced
    /\ mw.err.messages = <<<<"secret", "%v">>, <<"stack">>>>
    /\ mw.err.text = <<"secret">>
    /\ mw.out = [code |-> "PermissionDenied", msg |-> <<"access denied">>]
====
